---- MODULE Spec2Model ----
(***************************************************************************)
(* Model of mergekit/graph.py: the Executor that collects the dependencies *)
(* of a list of target Tasks, schedules them with a lexicographical        *)
(* topological sort and runs the schedule as a lazy generator, evicting    *)
(* every value after its last use.                                         *)
(*                                                                         *)
(* Tasks are the integers 1..NumTasks, the dummy node of the scheduler is  *)
(* 0.  A Python dict is a function together with its insertion order, a    *)
(* Python list is a sequence; positions into Python lists (idx, node       *)
(* indices, last_use_index) are 0-based as in the source, so the element   *)
(* at Python index i of a list s is s[i + 1] here.                         *)
(***************************************************************************)
EXTENDS Integers, Sequences, FiniteSets, TLC

\* ------------------------------------------------------------- bounds
NumTasks == 4
MaxArgs == 2
MaxEdges == 3
MaxPriority == 1
MaxLabel == 1
MaxHinted == 1
MaxTargets == 2
MaxCached == 1

Tasks == 1..NumTasks

\* The values a caller supplies in the cached-values mapping.
CachedInputs == {5}

\* Executor.DUMMY_TASK_VALUE, the node the scheduler adds in front of the targets.
DUMMY_TASK_VALUE == 0

VARIABLES
    arguments,       \* Task.arguments(): task -> sequence of the dependency tasks (dict items in order)
    priority,        \* Task.priority(): task -> integer
    group_label,     \* Task.group_label(): task -> label, 0 is None or ""
    targets,         \* Executor.targets: the list handed to __init__
    cached_values,   \* Executor.cached_values: task -> value, on the cached tasks
    phase,           \* "new", "ready" (constructed) or "cycle_error" (__init__ raised)
    dependencies,    \* Executor.dependencies: task -> set of tasks
    dep_keys,        \* insertion order of the keys of Executor.dependencies
    node_values,     \* _make_schedule: the node of every node index, in index order
    topo,            \* the nodes lexicographical_topological_sort generated, in order
    schedule,        \* Executor.schedule
    pc,              \* position of the generator run(): "idle", "exec", "evict", "yield", "done", "task_error", "key_error"
    idx,             \* run(): index of the current schedule entry
    last_use_index,  \* run(): value key -> index of its last use
    values,          \* run(): the value store
    executed,        \* the tasks whose execute() was invoked in this run, in order
    emitted,         \* the (task, value) pairs yielded in this run, in order
    evicted          \* the keys deleted from the value store in this run

vars == <<arguments, priority, group_label, targets, cached_values, phase,
          dependencies, dep_keys, node_values, topo, schedule, pc, idx,
          last_use_index, values, executed, emitted, evicted>>

inputs == <<arguments, priority, group_label, targets, cached_values>>
built == <<phase, dependencies, dep_keys, node_values, topo, schedule>>

\* ------------------------------------------------------------- helpers
Range(s) == {s[i] : i \in DOMAIN s}

SeqsUpTo(S, n) == UNION {[1..k -> S] : k \in 0..n}

\* The first occurrences of the elements of s, in order.
RECURSIVE FirstOccurrences(_)
FirstOccurrences(s) ==
    IF s = <<>> THEN <<>>
    ELSE LET front == FirstOccurrences(SubSeq(s, 1, Len(s) - 1))
             last == s[Len(s)]
         IN IF last \in Range(front) THEN front ELSE Append(front, last)

\* Position of x in the duplicate-free sequence s, 0-based.
IndexOf(s, x) == (CHOOSE i \in DOMAIN s : s[i] = x) - 1

RECURSIVE Flatten(_)
Flatten(ss) == IF ss = <<>> THEN <<>> ELSE ss[1] \o Flatten(Tail(ss))

\* All orders in which a Python set of tasks can be iterated: the order follows the
\* hashes of the tasks, which differ from one interpreter process to the next.
HashOrders == {h \in [1..NumTasks -> Tasks] : Range(h) = Tasks}

\* Iteration of the set S under the hash order h.
SetIter(S, h) == SelectSeq(h, LAMBDA t : t \in S)

\* ------------------------------------------------------------- dependency collector
\* A collector that does not stop at a cached task: it records and follows the
\* declared dependencies of every task.
RECURSIVE build_loop_past_cached(_, _, _, _)
build_loop_past_cached(to_process, keys, deps, cached) ==
    IF to_process = <<>> THEN [keys |-> keys, deps |-> deps]
    ELSE LET child == to_process[Len(to_process)]
             rest == SubSeq(to_process, 1, Len(to_process) - 1)
         IN IF child \in DOMAIN deps
            THEN build_loop_past_cached(rest, keys, deps, cached)
            ELSE build_loop_past_cached(rest \o arguments[child], Append(keys, child),
                                        deps @@ (child :> Range(arguments[child])), cached)

\* A collector that records the declared dependencies of a task and does not put
\* them on the work stack.
RECURSIVE build_loop_no_descent(_, _, _, _)
build_loop_no_descent(to_process, keys, deps, cached) ==
    IF to_process = <<>> THEN [keys |-> keys, deps |-> deps]
    ELSE LET child == to_process[Len(to_process)]
             rest == SubSeq(to_process, 1, Len(to_process) - 1)
         IN IF child \in DOMAIN deps
            THEN build_loop_no_descent(rest, keys, deps, cached)
            ELSE IF child \in cached
            THEN build_loop_no_descent(rest, Append(keys, child), deps @@ (child :> {}), cached)
            ELSE build_loop_no_descent(rest, Append(keys, child),
                                       deps @@ (child :> Range(arguments[child])), cached)

\* The while loop of _build_dependencies: to_process is the work stack, keys and deps
\* are task_dependencies (insertion order of its keys, and its mapping).
RECURSIVE build_loop(_, _, _, _)
build_loop(to_process, keys, deps, cached) ==
    IF to_process = <<>> THEN [keys |-> keys, deps |-> deps]
    ELSE LET child == to_process[Len(to_process)]
             rest == SubSeq(to_process, 1, Len(to_process) - 1)
         IN IF child \in DOMAIN deps
            THEN build_loop(rest, keys, deps, cached)
            ELSE IF child \in cached
            THEN build_loop(rest, Append(keys, child), deps @@ (child :> {}), cached)
            ELSE build_loop(rest \o arguments[child], Append(keys, child),
                            deps @@ (child :> Range(arguments[child])), cached)

_build_dependencies(tgts, cached) == build_loop(tgts, <<>>, <<>>, cached)

\* ------------------------------------------------------------- scheduler
\* A scheduler that adds every edge the wrong way round, from the node to its dependency.
DependencyEdgesReversed(d, h) ==
    Flatten([i \in 1..Len(d.keys) |->
        LET node == d.keys[i]
            it == SetIter(d.deps[node], h)
        IN [j \in 1..Len(it) |-> <<node, it[j]>>]])

\* The (dependency, node) pairs in the order the loop over self.dependencies meets
\* them; the inner loop iterates a Python set, in hash order h.
DependencyEdges(d, h) ==
    Flatten([i \in 1..Len(d.keys) |->
        LET node == d.keys[i]
            it == SetIter(d.deps[node], h)
        IN [j \in 1..Len(it) |-> <<it[j], node>>]])

\* node_values once every _index call has been made: dependency edges first, then the
\* dummy, then the targets.
NodeValues(de, tgts) ==
    FirstOccurrences(Flatten(de) \o <<DUMMY_TASK_VALUE>> \o tgts)

_index(nv, node) == IndexOf(nv, node)

\* A scheduler that leaves out the edges from the dummy node to the targets.
EdgeTupsWithoutDummy(de, nv, tgts) ==
    [i \in 1..Len(de) |-> <<_index(nv, de[i][1]), _index(nv, de[i][2])>>]

\* edge_tups: the dependency edges, then an edge from the dummy to every target.
EdgeTups(de, nv, tgts) ==
    [i \in 1..Len(de) |-> <<_index(nv, de[i][1]), _index(nv, de[i][2])>>]
    \o [i \in 1..Len(tgts) |-> <<_index(nv, DUMMY_TASK_VALUE), _index(nv, tgts[i])>>]

\* A key that takes the priority as it is, not negated.
_compare_key_unnegated(task) ==
    IF task = DUMMY_TASK_VALUE THEN <<0, 0>>
    ELSE <<group_label[task], priority[task]>>

\* _compare_key of the node with value task.
_compare_key(task) ==
    IF task = DUMMY_TASK_VALUE THEN <<0, 0>>
    ELSE <<group_label[task], -priority[task]>>

\* networkx.DiGraph(edge_tups): the nodes in the order the edges first mention them,
\* and the set of edges (parallel edges collapse).
DiGraph(edge_tups) ==
    [nodes |-> FirstOccurrences(Flatten(edge_tups)), edges |-> Range(edge_tups)]

\* Python's comparison of two (str, int) tuples.
TupleLess(a, b) == a[1] < b[1] \/ (a[1] = b[1] /\ a[2] < b[2])

\* Order of the heap entries (key(node), nodeid_map[node], node) of
\* lexicographical_topological_sort.
HeapLess(G, nv, a, b) ==
    LET ka == _compare_key(nv[a + 1])
        kb == _compare_key(nv[b + 1])
    IN TupleLess(ka, kb) \/ (ka = kb /\ IndexOf(G.nodes, a) < IndexOf(G.nodes, b))

HeapPop(G, nv, heap) == CHOOSE n \in heap : \A m \in heap \ {n} : HeapLess(G, nv, n, m)

InDegree(G, v) == Cardinality({e \in G.edges : e[2] = v})

\* The while loop of lexicographical_topological_sort: pop the smallest entry, lower
\* the in-degree of its children, push those that reach zero.
RECURSIVE topo_loop(_, _, _, _, _)
topo_loop(G, nv, zero_indegree, indegree_map, out) ==
    IF zero_indegree = {} THEN [order |-> out, unfeasible |-> DOMAIN indegree_map # {}]
    ELSE LET node == HeapPop(G, nv, zero_indegree)
             children == {e[2] : e \in {e \in G.edges : e[1] = node}}
             lowered == [c \in DOMAIN indegree_map |->
                            IF c \in children THEN indegree_map[c] - 1 ELSE indegree_map[c]]
             freed == {c \in DOMAIN lowered : lowered[c] = 0}
         IN topo_loop(G, nv, (zero_indegree \ {node}) \cup freed,
                      [c \in DOMAIN lowered \ freed |-> lowered[c]], Append(out, node))

\* A topological sort that returns what it could place and never reports a cycle.
SortWithoutCycleError(G, nv) ==
    LET V == Range(G.nodes)
        srt == topo_loop(G, nv, {v \in V : InDegree(G, v) = 0},
                         [v \in {v \in V : InDegree(G, v) > 0} |-> InDegree(G, v)], <<>>)
    IN [order |-> srt.order, unfeasible |-> FALSE]

\* networkx.lexicographical_topological_sort(graph, key=_compare_key): the order it
\* generates and whether it ends with NetworkXUnfeasible (the graph has a cycle).
lexicographical_topological_sort(G, nv) ==
    LET V == Range(G.nodes)
    IN topo_loop(G, nv, {v \in V : InDegree(G, v) = 0},
                 [v \in {v \in V : InDegree(G, v) > 0} |-> InDegree(G, v)], <<>>)

\* A filter that drops the dummy node only and keeps the cached tasks.
ScheduledKeepsCached(task, cached) == task # DUMMY_TASK_VALUE

\* The filter of the list comprehension: neither the dummy nor a cached task.
Scheduled(task, cached) == task # DUMMY_TASK_VALUE /\ task \notin cached

\* The rest of _make_schedule once self.dependencies is d and the loops over it have
\* met the dependency edges in the order de.
ScheduleFrom(d, de, tgts, cached) ==
    LET nv == NodeValues(de, tgts)
        G == DiGraph(EdgeTups(de, nv, tgts))
        srt == lexicographical_topological_sort(G, nv)
        order == [i \in 1..Len(srt.order) |-> nv[srt.order[i] + 1]]
    IN [dependencies |-> d.deps, dep_keys |-> d.keys, node_values |-> nv,
        topo |-> order, unfeasible |-> srt.unfeasible,
        schedule |-> SelectSeq(order, LAMBDA t : Scheduled(t, cached))]

\* _make_schedule(targets) when sets iterate in hash order h.
_make_schedule(tgts, cached, h) ==
    LET d == _build_dependencies(tgts, cached)
    IN ScheduleFrom(d, DependencyEdges(d, h), tgts, cached)

\* Every outcome of _make_schedule(targets), over the iteration orders of the sets.
MakeScheduleOutcomes(tgts, cached) ==
    LET d == _build_dependencies(tgts, cached)
    IN {ScheduleFrom(d, de, tgts, cached) : de \in {DependencyEdges(d, h) : h \in HashOrders}}

\* ------------------------------------------------------------- runtime
\* Task.execute(**arguments) of the example tasks: one more than the weighted sum of
\* the argument values, in the order of arguments() (a task of one argument computes
\* "argument + 1", a leaf computes 1).
RECURSIVE WeightedSum(_)
WeightedSum(a) ==
    IF a = <<>> THEN 0 ELSE Len(a) * a[Len(a)] + WeightedSum(SubSeq(a, 1, Len(a) - 1))

execute(task, a) == 1 + WeightedSum(a)

\* An argument loop that binds the values to the names in the reverse order: the
\* first name gets the value of the last dependency.
ResolveArgumentsReversed(task, vals) ==
    [i \in DOMAIN arguments[task] |->
        vals[arguments[task][Len(arguments[task]) + 1 - i]]]

\* The dict "arguments" run() builds for task.execute: under every name of
\* task.arguments() the value the store holds for the dependency of that name.
ResolveArguments(task, vals) ==
    [i \in DOMAIN arguments[task] |-> vals[arguments[task][i]]]

\* The reversed loop that fills last_use_index, from Python index i down to 0.
RECURSIVE last_use_loop(_, _)
last_use_loop(i, lui) ==
    IF i < 0 THEN lui
    ELSE LET task == schedule[i + 1]
             deps == IF task \in DOMAIN dependencies THEN dependencies[task] ELSE {}
             withDeps == lui @@ [t \in deps \ DOMAIN lui |-> i]
             withTask == IF task \in DOMAIN withDeps THEN withDeps
                         ELSE withDeps @@ (task :> i)
         IN last_use_loop(i - 1, withTask)

\* A last-use pass that walks the schedule forwards, from Python index i up, and so
\* records the first use of every value.
RECURSIVE first_use_loop(_, _)
first_use_loop(i, lui) ==
    IF i >= Len(schedule) THEN lui
    ELSE LET task == schedule[i + 1]
             deps == IF task \in DOMAIN dependencies THEN dependencies[task] ELSE {}
             withDeps == lui @@ [t \in deps \ DOMAIN lui |-> i]
             withTask == IF task \in DOMAIN withDeps THEN withDeps
                         ELSE withDeps @@ (task :> i)
         IN first_use_loop(i + 1, withTask)

FirstUseIndex ==
    LET lui == first_use_loop(0, <<>>)
    IN lui @@ [t \in DOMAIN cached_values \ DOMAIN lui |-> Len(schedule) + 1]

\* A last-use pass that gives a cached value no scheduled task uses the index of the
\* last schedule entry.
LastUseIndexEndsWithSchedule ==
    LET lui == last_use_loop(Len(schedule) - 1, <<>>)
    IN lui @@ [t \in DOMAIN cached_values \ DOMAIN lui |-> Len(schedule) - 1]

\* last_use_index as run() computes it before its main loop.
LastUseIndex ==
    LET lui == last_use_loop(Len(schedule) - 1, <<>>)
    IN lui @@ [t \in DOMAIN cached_values \ DOMAIN lui |-> Len(schedule) + 1]

\* A run whose value store is the caller's mapping itself, not a copy of it: the
\* deletions of the eviction reach the mapping.
CachedValuesAliased(cv, expired) == [k \in DOMAIN cv \ expired |-> cv[k]]

\* self.cached_values after the deletions of the eviction: values is a dict of its
\* own, filled by values.update(self.cached_values), so the mapping is untouched.
CachedValuesAfterEviction(cv, expired) == cv

\* An eviction that is one step late: it expires a value in the step after its last
\* use.
ExpiredOneStepLate(vals, lui, i) == {key \in DOMAIN vals : i > lui[key]}

\* An eviction that is one step early: it expires a value in the step before its
\* last use.
ExpiredOneStepEarly(vals, lui, i) == {key \in DOMAIN vals : i + 1 >= lui[key]}

\* The keys the eviction loop collects in expired.
Expired(vals, lui, i) == {key \in DOMAIN vals : i >= lui[key]}

\* A main loop that walks the schedule backwards, as the last-use pass does.
CurrentTaskReversed == schedule[Len(schedule) - idx]

\* The schedule entry of the current iteration of the main loop.
CurrentTask == schedule[idx + 1]

\* A main loop that yields the pair of every task it executes.
YieldsEveryTask(task) == task \in Range(schedule)

\* A main loop that suspends for the first requested target only and runs past every
\* other target without handing its pair over.
YieldsOnlyFirstTarget(task) == task = targets[1]

\* "if task in self.targets": the iteration yields the pair of this task.
Yields(task) == task \in Range(targets)

\* A run that binds the key of the task in the value store before it calls execute,
\* so that the entry is there when execute raises.
StoredOnRaiseKeepsEntry(vals, task) ==
    [k \in DOMAIN vals \cup {task} |-> IF k = task THEN 0 ELSE vals[k]]

\* The value store when task.execute raises: "values[task] = res" comes after the
\* call and is not reached.
StoredOnRaise(vals, task) == vals

\* ------------------------------------------------------------- initial states
Hinted == {t \in Tasks : priority[t] # 0 \/ group_label[t] # 0}

\* arguments() of every task, from the list of (task, dependency) pairs es.
ArgumentsOf(es) ==
    [t \in Tasks |->
        LET mine == SelectSeq(es, LAMBDA e : e[1] = t)
        IN [i \in 1..Len(mine) |-> mine[i][2]]]

\* The Executor only ever sees the tasks its collector meets and the keys of the
\* cached-values mapping, and it sees a task only through equality, hash and the Task
\* methods.  So the tasks are numbered in the order the collector meets them, then come
\* the cached tasks it does not meet, and every task the collector does not meet is
\* left without arguments and with the default hints.
Canonical(tgts, cached) ==
    LET keys == _build_dependencies(tgts, cached).keys
        met == Range(keys)
    IN /\ \A i \in DOMAIN keys : keys[i] = i
       /\ cached \ met = (Len(keys) + 1)..(Len(keys) + Cardinality(cached \ met))
       /\ \A t \in Tasks \ met : arguments[t] = <<>>

Init ==
    /\ \E es \in SeqsUpTo(Tasks \X Tasks, MaxEdges) :
         /\ \A i \in 1..(Len(es) - 1) : es[i][1] <= es[i + 1][1]
         /\ arguments = ArgumentsOf(es)
    /\ \A t \in Tasks : Len(arguments[t]) <= MaxArgs
    /\ targets \in SeqsUpTo(Tasks, MaxTargets)
    /\ cached_values \in UNION {[S -> CachedInputs] :
                                  S \in {S \in SUBSET Tasks : Cardinality(S) <= MaxCached}}
    /\ Canonical(targets, DOMAIN cached_values)
    /\ priority \in [Tasks -> 0..MaxPriority]
    /\ group_label \in [Tasks -> 0..MaxLabel]
    /\ Cardinality(Hinted) <= MaxHinted
    /\ Hinted \subseteq Range(_build_dependencies(targets, DOMAIN cached_values).keys)
    /\ phase = "new"
    /\ dependencies = <<>>
    /\ dep_keys = <<>>
    /\ node_values = <<>>
    /\ topo = <<>>
    /\ schedule = <<>>
    /\ pc = "idle"
    /\ idx = 0
    /\ last_use_index = <<>>
    /\ values = <<>>
    /\ executed = <<>>
    /\ emitted = <<>>
    /\ evicted = {}

\* ------------------------------------------------------------- actions
runvars == <<pc, idx, last_use_index, values, executed, emitted, evicted>>

\* Executor.__init__ when _make_schedule returns.
Construct ==
    /\ phase = "new"
    /\ \E r \in MakeScheduleOutcomes(targets, DOMAIN cached_values) :
            /\ ~r.unfeasible
            /\ dependencies' = r.dependencies
            /\ dep_keys' = r.dep_keys
            /\ node_values' = r.node_values
            /\ topo' = r.topo
            /\ schedule' = r.schedule
    /\ phase' = "ready"
    /\ UNCHANGED <<inputs, runvars>>

\* Executor.__init__ when the topological sort raises NetworkXUnfeasible: no Executor
\* and no schedule exist afterwards.
ConstructFails ==
    /\ phase = "new"
    /\ \E r \in MakeScheduleOutcomes(targets, DOMAIN cached_values) :
            /\ r.unfeasible
            /\ dependencies' = r.dependencies
            /\ dep_keys' = r.dep_keys
            /\ node_values' = r.node_values
            /\ topo' = r.topo
    /\ schedule' = <<>>
    /\ phase' = "cycle_error"
    /\ UNCHANGED <<inputs, runvars>>

\* run() is called and the generator is first resumed: the last-use pass and the copy
\* of the cached values into the value store.  A later call starts a new run.
Start ==
    /\ phase = "ready"
    /\ pc \in {"idle", "done", "yield", "task_error"}
    /\ last_use_index' = LastUseIndex
    /\ values' = cached_values
    /\ idx' = 0
    /\ executed' = <<>>
    /\ emitted' = <<>>
    /\ evicted' = {}
    /\ pc' = IF Len(schedule) > 0 THEN "exec" ELSE "done"
    /\ UNCHANGED <<inputs, built>>

\* One iteration of the main loop up to the yield: resolve the arguments from the
\* value store, execute, store, and yield the pair when the task is a target.
Execute ==
    /\ pc = "exec"
    /\ LET task == CurrentTask
           deps == arguments[task]
       IN IF \E i \in DOMAIN deps : deps[i] \notin DOMAIN values
          THEN /\ pc' = "key_error"
               /\ UNCHANGED <<values, executed, emitted>>
          ELSE LET res == execute(task, ResolveArguments(task, values))
                   stored == [k \in DOMAIN values \cup {task} |->
                                 IF k = task THEN res ELSE values[k]]
               IN /\ values' = stored
                  /\ executed' = Append(executed, task)
                  /\ IF Yields(task)
                     THEN /\ emitted' = Append(emitted, <<task, stored[task]>>)
                          /\ pc' = "yield"
                     ELSE /\ emitted' = emitted
                          /\ pc' = "evict"
    /\ UNCHANGED <<inputs, built, idx, last_use_index, evicted>>

\* task.execute raises: the exception leaves the generator, which is finished.
ExecuteRaises ==
    /\ pc = "exec"
    /\ \A i \in DOMAIN arguments[CurrentTask] : arguments[CurrentTask][i] \in DOMAIN values
    /\ executed' = Append(executed, CurrentTask)
    /\ values' = StoredOnRaise(values, CurrentTask)
    /\ pc' = "task_error"
    /\ UNCHANGED <<inputs, built, idx, last_use_index, emitted, evicted>>

\* The rest of the iteration, after the yield when there was one (the consumer asked
\* for the next pair): evict the expired values and move to the next entry.
Evict ==
    /\ pc \in {"evict", "yield"}
    /\ IF \E key \in DOMAIN values : key \notin DOMAIN last_use_index
       THEN /\ pc' = "key_error"
            /\ UNCHANGED <<values, evicted, idx, cached_values>>
       ELSE LET expired == Expired(values, last_use_index, idx)
            IN /\ values' = [k \in DOMAIN values \ expired |-> values[k]]
               /\ cached_values' = CachedValuesAfterEviction(cached_values, expired)
               /\ evicted' = evicted \cup expired
               /\ idx' = idx + 1
               /\ pc' = IF idx + 1 < Len(schedule) THEN "exec" ELSE "done"
    /\ UNCHANGED <<arguments, priority, group_label, targets, built, last_use_index,
                   executed, emitted>>

Next ==
    \/ Construct
    \/ ConstructFails
    \/ Start
    \/ Execute
    \/ ExecuteRaises
    \/ Evict

Spec == Init /\ [][Next]_vars

TypeOK ==
    /\ phase \in {"new", "ready", "cycle_error"}
    /\ pc \in {"idle", "exec", "evict", "yield", "done", "task_error", "key_error"}
    /\ Range(schedule) \subseteq Tasks
    /\ idx \in 0..Len(schedule)

\* ------------------------------------------------------------- what the claims speak of
Cached == DOMAIN cached_values

\* The declared dependencies the collector follows from t: none past a cached task.
DeclaredDeps(t) == IF t \in Cached THEN {} ELSE Range(arguments[t])

RECURSIVE Closure(_)
Closure(S) ==
    LET more == S \cup UNION {DeclaredDeps(t) : t \in S}
    IN IF more = S THEN S ELSE Closure(more)

\* The tasks reachable from the targets.
Reachable == Closure(Range(targets))

\* The reachable dependency relation has a cycle.
HasCycle == \E t \in Reachable : t \in Closure(DeclaredDeps(t))

NoDuplicates(s) == \A i, j \in DOMAIN s : s[i] = s[j] => i = j

\* Python index of task t in the schedule.
ScheduleIndex(t) == IndexOf(schedule, t)

\* C1: for an acyclic dependency relation the construction succeeds and the schedule
\* holds each reachable non-cached task exactly once, holds no other task, and has
\* every non-cached dependency of a task at a strictly smaller index than the task.
C1_ScheduleIsTopologicalOrder ==
    (phase # "new" /\ ~HasCycle) =>
        /\ phase = "ready"
        /\ NoDuplicates(schedule)
        /\ Range(schedule) = Reachable \ Cached
        /\ \A t \in Range(schedule) : \A d \in Range(arguments[t]) \ Cached :
              /\ d \in Range(schedule)
              /\ ScheduleIndex(d) < ScheduleIndex(t)

\* A schedule of three tasks, one of which depends on a cached task.
C1_Witness ==
    /\ phase = "ready"
    /\ Len(schedule) >= 3
    /\ \E t \in Range(schedule) : Range(arguments[t]) \cap Cached # {}
    /\ \E t \in Range(schedule) : Range(arguments[t]) \ Cached # {}

\* C2: every requested target that is not cached is in the schedule, also a target
\* without dependencies on which no task depends.
C2_TargetsAreScheduled ==
    phase = "ready" => \A t \in Range(targets) \ Cached : t \in Range(schedule)

\* The only edges of the graph are those from the dummy node: two targets without
\* dependencies, on which nothing depends.
C2_Witness ==
    /\ phase = "ready"
    /\ Len(targets) = 2
    /\ targets[1] # targets[2]
    /\ Cached = {}
    /\ \A t \in Tasks : arguments[t] = <<>>
    /\ Len(schedule) = 2

\* C3: a cached task is never in the schedule and never executed, whether it is a
\* target, a dependency or both; a task about to execute finds the cached value of a
\* cached dependency in the value store; with A cached as 5, B = A + 1 and targets
\* [B], the schedule is [B] and the run emits (B, 6) alone.
C3_CachedTasksAreNotComputed ==
    /\ \A c \in Cached : c \notin Range(schedule) /\ c \notin Range(executed)
    /\ pc = "exec" =>
          \A d \in Range(arguments[CurrentTask]) \cap Cached :
              d \in DOMAIN values /\ values[d] = cached_values[d]
    /\ (/\ phase = "ready"
        /\ targets = <<1>>
        /\ arguments[1] = <<2>>
        /\ cached_values = (2 :> 5))
       => /\ schedule = <<1>>
          /\ pc = "done" => emitted = << <<1, 6>> >>
          /\ pc \in {"evict", "yield"} => values[1] = 6

\* A finished run in which a cached task is both a target and a dependency of an
\* executed task.
C3_Witness ==
    /\ pc = "done"
    /\ \E c \in Cached :
          /\ c \in Range(targets)
          /\ \E t \in Range(executed) : c \in Range(arguments[t])

\* C4: when the reachable dependency relation has a cycle, a task that depends on
\* itself included, the construction fails with the cycle error: there is no schedule
\* and no task was executed.
C4_CycleIsFatal ==
    (phase # "new" /\ HasCycle) =>
        /\ phase = "cycle_error"
        /\ schedule = <<>>
        /\ executed = <<>>
        /\ pc = "idle"

\* The construction failed on a task that depends on itself.
C4_Witness ==
    /\ phase = "cycle_error"
    /\ \E t \in Reachable : t \in DeclaredDeps(t)

\* The tasks of the pairs the run has yielded, in order.
EmittedTasks == [i \in 1..Len(emitted) |-> emitted[i][1]]

\* C5, as claimed: a run consumed to completion emits exactly one pair per requested
\* target, also for a target that is a cached value, in schedule order.
C5_OnePairPerRequestedTarget ==
    pc = "done" =>
        /\ \A t \in Range(targets) :
              Cardinality({i \in DOMAIN emitted : emitted[i][1] = t}) = 1
        /\ EmittedTasks = SelectSeq(schedule, LAMBDA t : t \in Range(targets))

\* C5, amended: a run consumed to completion emits exactly one pair per requested
\* target that is not a cached value and no pair for a cached target or any other
\* task, and the pairs are in schedule order.
C5_OnePairPerComputedTarget ==
    pc = "done" =>
        /\ \A t \in Range(targets) \ Cached :
              Cardinality({i \in DOMAIN emitted : emitted[i][1] = t}) = 1
        /\ \A i \in DOMAIN emitted : emitted[i][1] \in Range(targets) \ Cached
        /\ \A i, j \in DOMAIN emitted :
              i < j => ScheduleIndex(emitted[i][1]) < ScheduleIndex(emitted[j][1])

\* A finished run that emitted two targets in the reverse of the request order.
C5_Witness ==
    /\ pc = "done"
    /\ Len(targets) = 2
    /\ EmittedTasks = <<targets[2], targets[1]>>
    /\ targets[1] # targets[2]

IsPrefix(s, t) == Len(s) <= Len(t) /\ \A i \in DOMAIN s : s[i] = t[i]

\* C6: within a run the execute operations are invoked one per step, in schedule
\* order and none twice; a run drained to completion has invoked execute exactly once
\* for every scheduled task, and then the generator is finished.
C6_OneExecutionPerTaskInOrder ==
    /\ IsPrefix(executed, schedule)
    /\ NoDuplicates(executed)
    /\ pc = "exec" => Len(executed) = idx
    /\ pc \in {"evict", "yield", "task_error"} => Len(executed) = idx + 1
    /\ pc = "done" =>
          /\ executed = schedule
          /\ idx = Len(schedule)
          /\ ~ ENABLED (Execute \/ ExecuteRaises \/ Evict)

\* A drained run of a schedule of three tasks.
C6_Witness == pc = "done" /\ Len(schedule) >= 3 /\ executed = schedule

\* The Python indices of the scheduled consumers of the value of k.
Consumers(k) == {j \in 0..(Len(schedule) - 1) : k \in Range(arguments[schedule[j + 1]])}

LastConsumer(k) == CHOOSE j \in Consumers(k) : \A i \in Consumers(k) : i <= j

\* The value of k has been put into the value store in this run.
Produced(k) ==
    \/ k \in Cached
    \/ /\ k \in Range(schedule)
       /\ \/ ScheduleIndex(k) < idx
          \/ ScheduleIndex(k) = idx /\ pc \in {"evict", "yield"}

\* C7: a value with at least one scheduled consumer, computed or cached, is in the
\* value store from its production up to the eviction of the step of its last
\* consumer, so it is there when each consumer executes, and it is absent afterwards;
\* it is never evicted while a consumer has yet to complete its step.
C7_EvictedAfterLastConsumer ==
    (phase = "ready" /\ pc # "idle") =>
        \A k \in Tasks :
            (Consumers(k) # {} /\ Produced(k)) =>
                /\ (k \in DOMAIN values) <=> (idx <= LastConsumer(k))
                /\ k \in evicted => idx > LastConsumer(k)

\* Fan-out: the first of two consumers of a value has completed its step and the
\* value is still in the store for the second.
C7_Witness ==
    /\ pc = "exec"
    /\ \E k \in Tasks :
          /\ Cardinality(Consumers(k)) = 2
          /\ idx - 1 \in Consumers(k)
          /\ idx \notin Consumers(k)
          /\ k \in DOMAIN values
          /\ evicted # {}

\* C8: a task about to execute finds the value of each declared dependency in the
\* value store, so the missing-value failure is never reached, and no task that has
\* yet to execute looks up a value that was evicted.
C8_DependenciesArePresent ==
    /\ pc # "key_error"
    /\ pc = "exec" => Range(arguments[CurrentTask]) \subseteq DOMAIN values
    /\ (phase = "ready" /\ pc # "idle") =>
          \A j \in 0..(Len(schedule) - 1) :
              (j > idx \/ (j = idx /\ pc = "exec")) =>
                  Range(arguments[schedule[j + 1]]) \cap evicted = {}

\* A task with a dependency is about to execute after values have been evicted.
C8_Witness ==
    /\ pc = "exec"
    /\ arguments[CurrentTask] # <<>>
    /\ evicted # {}

\* C9, as claimed: building the schedule a second time for the same targets,
\* dependency relation, cached values, priorities and group labels yields the sequence
\* the first build produced.
C9_RebuildYieldsSameSchedule ==
    phase = "ready" =>
        \A h \in HashOrders :
            _make_schedule(targets, DOMAIN cached_values, h).schedule = schedule

\* Position in the order of the topological sort, 0 when the node is not in it.
TopoPosition(n) == IF n \in Range(topo) THEN IndexOf(topo, n) + 1 ELSE 0

\* Every dependency of t recorded by the collector was placed before position p.
DependenciesPlacedBefore(t, p) ==
    \A d \in dependencies[t] : TopoPosition(d) # 0 /\ TopoPosition(d) < p

\* C10, as claimed: of two scheduled tasks with the same group label that both have
\* all their dependencies placed, the one with the strictly higher priority is placed
\* first, target or not.
C10_HigherPriorityFirst ==
    phase = "ready" =>
        \A u, v \in Range(schedule) :
            (/\ group_label[u] = group_label[v]
             /\ priority[v] > priority[u]
             /\ DependenciesPlacedBefore(u, TopoPosition(u))
             /\ DependenciesPlacedBefore(v, TopoPosition(u)))
            => TopoPosition(v) < TopoPosition(u)

\* The targets among the first n entries of the schedule, in schedule order.
TargetsAmongFirst(n) ==
    SelectSeq(SubSeq(schedule, 1, n), LAMBDA t : t \in Range(targets))

\* C11: when the execute operation of the task at schedule index i raises, the run
\* ends with that error: the tasks invoked are those at the indices 0..i and no step
\* of the run can follow, the value store has no entry for the failing task, no pair
\* was emitted for it, and the pairs emitted are those of the targets at the indices
\* below i, each with the value it had in the store.
C11_RaiseAbortsTheRun ==
    pc = "task_error" =>
        /\ executed = SubSeq(schedule, 1, idx + 1)
        /\ ~ ENABLED (Execute \/ ExecuteRaises \/ Evict)
        /\ CurrentTask \notin DOMAIN values
        /\ \A i \in DOMAIN emitted : emitted[i][1] # CurrentTask
        /\ EmittedTasks = TargetsAmongFirst(idx)

\* A task raises after a target was emitted and with a task left in the schedule
\* behind it.
C11_Witness ==
    /\ pc = "task_error"
    /\ Len(emitted) >= 1
    /\ idx + 1 < Len(schedule)

\* The number of schedule entries whose execute has returned in this run.
Completed ==
    IF pc \in {"evict", "yield"} THEN idx + 1 ELSE idx

\* C12: the run is lazy.  While the generator is suspended on the pair of the target
\* at schedule index i, the tasks executed are exactly those at the indices 0..i, the
\* pair is that of the task at index i, the eviction of step i has not happened (the
\* value handed over is still in the store) and nothing executes until the consumer
\* resumes the generator; and at every point of a run the pairs handed over are
\* exactly those of the targets among the tasks completed, so a demand never runs past
\* the next target.
C12_RunIsLazy ==
    (phase = "ready" /\ pc \notin {"idle", "key_error"}) =>
        /\ EmittedTasks = TargetsAmongFirst(Completed)
        /\ pc = "yield" =>
              /\ executed = SubSeq(schedule, 1, idx + 1)
              /\ emitted[Len(emitted)] = <<schedule[idx + 1], values[schedule[idx + 1]]>>
              /\ \A k \in evicted :
                    /\ k # schedule[idx + 1]
                    /\ \A j \in Consumers(k) : j < idx
              /\ ~ ENABLED (Execute \/ ExecuteRaises)

\* The generator is suspended on its first pair after executing a task that is not a
\* target, a second target is still to come, and a value waits for the eviction of
\* this step.
C12_Witness ==
    /\ pc = "yield"
    /\ Len(emitted) = 1
    /\ idx >= 1
    /\ idx + 1 < Len(schedule)
    /\ \E k \in DOMAIN values : Consumers(k) # {} /\ LastConsumer(k) = idx

\* The value of task t as the claim defines it: the caller's value when t is cached,
\* otherwise what execute returns on the values of its declared dependencies, one per
\* name of arguments().
RECURSIVE ValueOf(_)
ValueOf(t) ==
    IF t \in Cached THEN cached_values[t]
    ELSE execute(t, [i \in DOMAIN arguments[t] |-> ValueOf(arguments[t][i])])

\* C13: a task about to execute gets exactly one argument per name of its
\* arguments() mapping, bound to the value of the dependency of that name: the value
\* the dependency's execute returned earlier in this run, or the caller's cached
\* value; every value in the store and every value emitted for a target is the value
\* the task's own execute returned on those arguments.
C13_ArgumentsAreDependencyValues ==
    (phase = "ready" /\ pc \notin {"idle", "key_error"}) =>
        /\ pc = "exec" =>
              LET args == ResolveArguments(CurrentTask, values)
              IN /\ DOMAIN args = DOMAIN arguments[CurrentTask]
                 /\ \A i \in DOMAIN args : args[i] = ValueOf(arguments[CurrentTask][i])
        /\ \A k \in DOMAIN values : values[k] = ValueOf(k)
        /\ \A i \in DOMAIN emitted : emitted[i][2] = ValueOf(emitted[i][1])

\* A target was emitted that takes two arguments of different values, one computed in
\* this run and one cached.
C13_Witness ==
    /\ pc = "done"
    /\ \E i \in DOMAIN emitted :
          LET deps == arguments[emitted[i][1]]
          IN /\ Len(deps) = 2
             /\ deps[1] \in Cached
             /\ deps[2] \in Range(executed)
             /\ ValueOf(deps[1]) # ValueOf(deps[2])

\* The cached tasks that are a declared dependency of no scheduled task.
UnreferencedCached == {c \in Cached : Consumers(c) = {}}

\* C14: a cached value that is a declared dependency of no scheduled task has a
\* last-use index greater than every schedule index, and it is in the value store,
\* with the caller's value, at every step of the run from the first to the last; no
\* step evicts it.
C14_UnreferencedCachedSurvives ==
    (phase = "ready" /\ pc \notin {"idle", "key_error"}) =>
        \A c \in UnreferencedCached :
            /\ \A j \in 0..(Len(schedule) - 1) : last_use_index[c] > j
            /\ c \in DOMAIN values
            /\ values[c] = cached_values[c]
            /\ c \notin evicted

\* A run of two tasks or more is finished, it evicted values, and a cached value that
\* no scheduled task uses is still in the store.
C14_Witness ==
    /\ pc = "done"
    /\ Len(schedule) >= 2
    /\ evicted # {}
    /\ UnreferencedCached # {}
    /\ UnreferencedCached \subseteq DOMAIN values

\* C15: no step of a run changes the caller's cached-values mapping, also not a step
\* that evicts cached entries from the value store, and every run, the first and any
\* later one on the same Executor, starts with a value store equal to that mapping.
C15_CachedValuesAreNeverChanged ==
    [][/\ cached_values' = cached_values
       /\ Start => values' = cached_values]_vars

\* A run has evicted a cached entry from its value store and the mapping still has
\* the entry, with the caller's value.
C15_Witness ==
    /\ pc \in {"exec", "done"}
    /\ \E c \in Cached :
          /\ c \in evicted
          /\ c \notin DOMAIN values
          /\ cached_values[c] \in CachedInputs

\* C16, as claimed: in the topological sort over the graph with the dummy node, the
\* dummy node is the first node selected, whatever the graph, the priorities and the
\* group labels.
C16_DummySelectedFirst ==
    (phase = "ready" /\ topo # <<>>) => topo[1] = DUMMY_TASK_VALUE

\* The graph of the sort as the claim describes it: the dummy node and the tasks
\* reachable from the targets (no graph at all without targets); the predecessors of
\* a task are its declared dependencies and, for a target, the dummy node.
GraphNodes == IF targets = <<>> THEN {} ELSE {DUMMY_TASK_VALUE} \cup Reachable

Predecessors(n) ==
    IF n = DUMMY_TASK_VALUE THEN {}
    ELSE DeclaredDeps(n) \cup (IF n \in Range(targets) THEN {DUMMY_TASK_VALUE} ELSE {})

\* The key of the claim: group label (0 for none or ""), then the negated priority;
\* the dummy node has the empty label and priority 0.
Key(n) == IF n = DUMMY_TASK_VALUE THEN <<0, 0>> ELSE <<group_label[n], 0 - priority[n]>>

KeyLeq(a, b) == a[1] < b[1] \/ (a[1] = b[1] /\ a[2] <= b[2])

\* The nodes the sort has selected before position p.
PlacedBefore(p) == {topo[q] : q \in 1..(p - 1)}

\* The nodes not selected before position p whose predecessors all were.
ReadyAt(p) == {m \in GraphNodes \ PlacedBefore(p) : Predecessors(m) \subseteq PlacedBefore(p)}

\* C17: at every step of the topological sort, also of a sort that ends with the
\* cycle error, the node selected is a node whose predecessors have all been placed,
\* a target counting as such only once the dummy node has been placed, and its key is
\* the lexicographically smallest among the keys of all such nodes, the dummy node
\* included.
C17_SelectsSmallestReadyKey ==
    phase # "new" =>
        \A p \in DOMAIN topo :
            /\ topo[p] \in ReadyAt(p)
            /\ \A m \in ReadyAt(p) : KeyLeq(Key(topo[p]), Key(m))

\* A step of the sort selected a node by its key against the order of the node
\* indices: another node was ready, has a greater key and a smaller node index.
C17_Witness ==
    /\ phase = "ready"
    /\ \E p \in DOMAIN topo : \E m \in ReadyAt(p) :
          /\ ~ KeyLeq(Key(m), Key(topo[p]))
          /\ IndexOf(node_values, m) < IndexOf(node_values, topo[p])
          /\ DUMMY_TASK_VALUE \in PlacedBefore(p)

\* The sequence s without its element at position p.
Without(s, p) == SubSeq(s, 1, p - 1) \o SubSeq(s, p + 1, Len(s))

\* The maps the collector can end with when each iteration takes any pending task
\* from the work list, not the last one: the body of the loop is that of
\* _build_dependencies, the position taken is free.
RECURSIVE CollectInAnyOrder(_, _, _)
CollectInAnyOrder(to_process, deps, cached) ==
    IF to_process = <<>> THEN {deps}
    ELSE UNION {
        LET child == to_process[p]
            rest == Without(to_process, p)
        IN IF child \in DOMAIN deps
           THEN CollectInAnyOrder(rest, deps, cached)
           ELSE IF child \in cached
           THEN CollectInAnyOrder(rest, deps @@ (child :> {}), cached)
           ELSE CollectInAnyOrder(rest \o arguments[child],
                                  deps @@ (child :> Range(arguments[child])), cached)
        : p \in DOMAIN to_process}

\* The map the claim describes: on the targets and the tasks reachable from them
\* without descending past a cached task, the empty set for a cached task and the
\* declared dependencies for any other.
ReachableDependencies == [t \in Reachable |-> DeclaredDeps(t)]

\* C18: on every graph, with a cycle or without, the collector terminates, and
\* whatever the order in which the pending tasks are taken from the work list, the
\* order of the code included, it ends with the same map: its keys are the targets
\* and the tasks reachable from them without descending past a cached task, a cached
\* key maps to the empty set and any other key to exactly its declared dependencies.
C18_CollectorIsOrderIndependent ==
    phase = "new" =>
        /\ _build_dependencies(targets, Cached).deps = ReachableDependencies
        /\ Range(_build_dependencies(targets, Cached).keys) = Reachable
        /\ CollectInAnyOrder(targets, <<>>, Cached) = {ReachableDependencies}

\* The collector is about to run on two targets, a cached task with declared
\* dependencies of its own below one of them, and a cycle.
C18_Witness ==
    /\ phase = "new"
    /\ Len(targets) = 2
    /\ targets[1] # targets[2]
    /\ \E c \in Cached \cap Reachable : c \notin Range(targets) /\ arguments[c] # <<>>
    /\ HasCycle

\* C19: every scheduled task is a requested target or a declared dependency of
\* another scheduled task; so the last task of a non-empty schedule is a requested
\* target, and in a run drained to completion the last task executed is the task of
\* the last pair emitted: nothing executes after the final emission.
C19_EveryScheduledTaskIsNeeded ==
    phase = "ready" =>
        /\ \A t \in Range(schedule) :
              \/ t \in Range(targets)
              \/ \E u \in Range(schedule) \ {t} : t \in Range(arguments[u])
        /\ schedule # <<>> => schedule[Len(schedule)] \in Range(targets)
        /\ (pc = "done" /\ schedule # <<>>) =>
              /\ emitted # <<>>
              /\ emitted[Len(emitted)][1] = executed[Len(executed)]

\* A drained run of two tasks or more with a reachable cached task whose own declared
\* dependency is not in the schedule.
C19_Witness ==
    /\ pc = "done"
    /\ Len(schedule) >= 2
    /\ \E c \in Cached \cap Reachable :
          /\ arguments[c] # <<>>
          /\ Range(arguments[c]) \cap Range(schedule) = {}
          /\ c \notin Range(arguments[c])

\* The last-use index of the value of k as the claim understands it: the index of its
\* last scheduled consumer, its own index when it is computed and has no consumer,
\* and an index beyond the schedule when it is cached and has no consumer.
LastUse(k) ==
    IF Consumers(k) # {} THEN LastConsumer(k)
    ELSE IF k \in Range(schedule) THEN ScheduleIndex(k)
    ELSE Len(schedule) + 1

\* C20: once the step at schedule index i has completed its eviction (and before the
\* first step, for i = -1), the keys of the value store are exactly those tasks,
\* cached or computed at an index up to i, whose last-use index is greater than i (a
\* cached value with a scheduled consumer leaves the store after its last use like a
\* computed one).  In particular a target without scheduled consumer is in
\* the store while its pair is handed over and is gone when its own step has
\* completed, and after a run consumed to completion the store holds no computed
\* value, only the cached values no scheduled task uses.
C20_StoreAfterEachStep ==
    (phase = "ready" /\ pc \notin {"idle", "key_error"}) =>
        /\ \A k \in DOMAIN last_use_index : last_use_index[k] = LastUse(k)
        /\ pc \in {"exec", "done"} =>
              DOMAIN values =
                  {k \in Cached \cup Range(SubSeq(schedule, 1, idx)) : LastUse(k) > idx - 1}
        /\ pc = "yield" => schedule[idx + 1] \in DOMAIN values
        /\ \A t \in Range(schedule) \cap Range(targets) :
              (Consumers(t) = {} /\ pc \in {"exec", "done"} /\ idx > ScheduleIndex(t)) =>
                  t \notin DOMAIN values /\ t \in evicted
        /\ pc = "done" =>
              /\ DOMAIN values \cap Range(schedule) = {}
              /\ DOMAIN values = UnreferencedCached

\* A step has completed its eviction: a computed value is kept for a later consumer,
\* a cached value was evicted after its last use, and a target without consumer was
\* evicted in its own step.
C20_Witness ==
    /\ pc = "exec"
    /\ DOMAIN values \cap Range(schedule) # {}
    /\ Cached \cap evicted # {}
    /\ \E t \in Range(targets) \cap evicted : Consumers(t) = {}

====
